---- MODULE Spec2Model ----
(***************************************************************************)
(* Model of phaseflow/octadecane.py: the Simulation class of a pure        *)
(* phase-change material with constant properties.                         *)
(*                                                                         *)
(* Numbers.  The parameters are stored as integers in a unit of their own: *)
(*   temperatures (regularization_central_temperature,                     *)
(*   regularization_smoothing_parameter, T)         in units of 0.01       *)
(*   penalty_parameter                              in units of 1.e-7      *)
(*   every other parameter                          in units of 1          *)
(* so the defaults 0.01, 1.e-7 and 1.e8 are 1, 1 and 100000000.  The       *)
(* symbolic expressions of the source are evaluated over exact rationals   *)
(* (numerator over a fixed denominator), tanh through a table rounded to   *)
(* 1/TanhScale.                                                            *)
(***************************************************************************)
EXTENDS Integers, Sequences, FiniteSets

VARIABLES
    args,                     \* the arguments __init__ was called with
    ip,                       \* __init__: index of its next statement
    pc,                       \* "construct" until __init__ returns, then "ready"
    params,                   \* the twelve parameter attributes assigned so far
    semi_phasefield_mapping,  \* self.semi_phasefield_mapping
    element,                  \* self.element
    governing_form,           \* self.governing_form
    base,                     \* what the base simulation supplies: mesh, integration_metric
    state_solution,           \* self.state.solution     (0: no state yet)
    old_state_solution,       \* self.old_state.solution (0: no state yet)
    last,                     \* the operation the last step executed
    calls,                    \* calls of each operation that returned so far
    rebinds,                  \* attribute rebindings by the caller so far
    phase_eval,               \* the last evaluations of the exposed mapping
    mu_eval                   \* the last evaluations of the effective viscosity

vars == <<args, ip, pc, params, semi_phasefield_mapping, element, governing_form,
          base, state_solution, old_state_solution, last, calls, rebinds,
          phase_eval, mu_eval>>

(***************************************************************************)
(* Bounds of the model.                                                    *)
(***************************************************************************)
MaxOverrides == 1     \* constructor arguments that differ from their default
MaxRebinds == 1       \* attribute rebindings by the caller in one run
MaxCalls == 2         \* calls of each operation that return in one run
MaxTemperature == 8   \* temperatures evaluated: -MaxTemperature..MaxTemperature
MaxViscosity == 3     \* viscosities evaluated: 0..MaxViscosity

(***************************************************************************)
(* __init__: parameters and their defaults (lines 12-24).                  *)
(***************************************************************************)
ParamOrder ==
    << "timestep_size", "rayleigh_numer", "prandtl_number", "stefan_number",
       "gravity", "liquid_viscosity", "solid_viscosity", "penalty_parameter",
       "regularization_central_temperature", "regularization_smoothing_parameter",
       "pressure_element_degree", "temperature_element_degree" >>

ParamNames == {ParamOrder[i] : i \in 1..Len(ParamOrder)}

Defaults ==
    [ timestep_size |-> 1,
      rayleigh_numer |-> 1,
      prandtl_number |-> 1,
      stefan_number |-> 1,
      gravity |-> <<0, -1>>,
      liquid_viscosity |-> 1,
      solid_viscosity |-> 100000000,
      penalty_parameter |-> 1,
      regularization_central_temperature |-> 0,
      regularization_smoothing_parameter |-> 1,
      pressure_element_degree |-> 1,
      temperature_element_degree |-> 1 ]

\* The values a caller passes, or a caller rebinds an attribute to: the
\* default and one other value.  No value is validated.
Alternative ==
    [ timestep_size |-> 2,
      rayleigh_numer |-> 2,
      prandtl_number |-> 2,
      stefan_number |-> 2,
      gravity |-> <<0, 0>>,
      liquid_viscosity |-> 2,
      solid_viscosity |-> 3,
      penalty_parameter |-> 0,
      regularization_central_temperature |-> 1,
      regularization_smoothing_parameter |-> 2,
      pressure_element_degree |-> 2,
      temperature_element_degree |-> 2 ]

Values(name) == {Defaults[name], Alternative[name]}

\* Defaults with the arguments named in `over` replaced.
WithOverrides(over) ==
    [n \in ParamNames |-> IF n \in over THEN Alternative[n] ELSE Defaults[n]]

Arguments ==
    {WithOverrides(over) : over \in {s \in SUBSET ParamNames : Cardinality(s) <= MaxOverrides}}

\* The statements of __init__ in order (lines 26-52): twelve assignments,
\* the mapping set to None, then the base constructor.
InitStatements == ParamOrder \o << "semi_phasefield_mapping", "base.__init__" >>

NoMapping == [kind |-> "unset", T_r |-> 0, r |-> 0]
NoneMapping == [kind |-> "None", T_r |-> 0, r |-> 0]
NoBase == [mesh |-> "unset", integration_metric |-> "unset"]

(***************************************************************************)
(* update_element (lines 55-66).                                           *)
(***************************************************************************)
FiniteElement(cell, degree) ==
    [family |-> "P", cell |-> cell, shape |-> "scalar", degree |-> degree]

VectorElement(cell, degree) ==
    [family |-> "P", cell |-> cell, shape |-> "vector", degree |-> degree]

\* Equal-order interpolation: the velocity at the pressure's degree.
velocity_element_degree_equal_order(pressure_element_degree) == pressure_element_degree

velocity_element_degree(pressure_element_degree) == pressure_element_degree + 1

\* The temperature sub-element built at the pressure degree.
MixedElement_temperature_at_pressure_degree(cell, prm) ==
    << FiniteElement(cell, prm.pressure_element_degree),
       VectorElement(cell, velocity_element_degree(prm.pressure_element_degree)),
       FiniteElement(cell, prm.pressure_element_degree) >>

MixedElement(cell, prm) ==
    << FiniteElement(cell, prm.pressure_element_degree),
       VectorElement(cell, velocity_element_degree(prm.pressure_element_degree)),
       FiniteElement(cell, prm.temperature_element_degree) >>

(***************************************************************************)
(* The functions update_governing_form defines (lines 83-105).             *)
(***************************************************************************)
\* tanh(k/ArgDen) in units of 1/TanhScale for k = 0, 1, ...; beyond the table
\* the rounded value is 1.
ArgDen == 4
TanhScale == 10000
TanhTable ==
    << 0, 2449, 4621, 6351, 7616, 8483, 9051, 9414, 9640, 9780, 9866, 9919,
       9951, 9970, 9982, 9989, 9993, 9996, 9998, 9999, 9999, 9999 >>

tanh(k) ==
    LET a == IF k < 0 THEN -k ELSE k
        v == IF a < Len(TanhTable) THEN TanhTable[a + 1] ELSE TanhScale
    IN  IF k < 0 THEN -v ELSE v

\* (T_r - T)/r in units of 1/ArgDen, for r # 0.
PhiArgument(T, T_r, r) ==
    IF r > 0 THEN (ArgDen * (T_r - T)) \div r
             ELSE (ArgDen * (T - T_r)) \div (-r)

\* The argument is a whole number of 1/ArgDen: the table evaluates it exactly.
OnGrid(T, T_r, r) ==
    /\ r # 0
    /\ (ArgDen * (T_r - T)) % (IF r > 0 THEN r ELSE -r) = 0

\* phi(T) = 0.5*(1. + tanh((T_r - T)/r)), in units of 1/PhiDen.
PhiDen == 2 * TanhScale

\* The indicator with the sign of its argument reversed: tanh((T - T_r)/r).
phi_reversed(T, T_r, r) == TanhScale - tanh(PhiArgument(T, T_r, r))

phi(T, T_r, r) == TanhScale + tanh(PhiArgument(T, T_r, r))

\* The blend with the two viscosities exchanged.
mu_exchanged(phi_of_T, mu_L, mu_S) == mu_S * PhiDen + (mu_L - mu_S) * phi_of_T

\* mu(phi_of_T) = mu_L + (mu_S - mu_L)*phi_of_T, in units of 1/PhiDen, for
\* phi_of_T in units of 1/PhiDen.
mu(phi_of_T, mu_L, mu_S) == mu_L * PhiDen + (mu_S - mu_L) * phi_of_T

(***************************************************************************)
(* update_governing_form: the governing form (lines 110-156).              *)
(*                                                                         *)
(* The form is the sequence of the terms of the sum of lines 151-155, each *)
(* integrated with dx.  A term records the summand it comes from (1..8, in *)
(* source order), its test function, its operator, the Constants it holds  *)
(* (by their local names, with the values they were created with) and the  *)
(* solution components it reads (of which solution).  dot(psi, A + B) is   *)
(* recorded as the two terms dot(psi, A) and dot(psi, B) of one summand.   *)
(***************************************************************************)
NoCoef == << >>

Comp(name, solution) == [comp |-> name, of |-> solution]

Term(summand, test, op, coef, fields, dx) ==
    [summand |-> summand, test |-> test, op |-> op, coef |-> coef,
     fields |-> fields, measure |-> dx]

Re == 1

\* Mass conservation: b(u, psi_p) - psi_p*gamma*p   (line 151)
MassTerms(prm, w, dx) ==
    << Term(1, "psi_p", "b", NoCoef, <<Comp("u", w)>>, dx),
       Term(2, "psi_p", "penalty", [gamma |-> prm.penalty_parameter],
            <<Comp("p", w)>>, dx) >>

\* The momentum terms without the pressure-velocity coupling b(psi_u, p).
MomentumTerms_no_pressure_coupling(prm, w, w_n, dx) ==
    << Term(3, "psi_u", "ddt", [Delta_t |-> prm.timestep_size],
            <<Comp("u", w), Comp("u", w_n)>>, dx),
       Term(3, "psi_u", "f_B",
            [Ra |-> prm.rayleigh_numer, Pr |-> prm.prandtl_number, Re |-> Re,
             g |-> prm.gravity],
            <<Comp("T", w)>>, dx),
       Term(4, "psi_u", "c", NoCoef, <<Comp("u", w), Comp("u", w)>>, dx),
       Term(6, "psi_u", "a",
            [mu_L |-> prm.liquid_viscosity, mu_S |-> prm.solid_viscosity,
             T_r |-> prm.regularization_central_temperature,
             r |-> prm.regularization_smoothing_parameter],
            <<Comp("T", w), Comp("u", w)>>, dx) >>

\* Momentum conservation   (lines 152-153):
\*   dot(psi_u, 1./Delta_t*(u - u_n) + f_B(T))
\*   + c(u, u, psi_u) + b(psi_u, p) + a(mu(phi(T)), u, psi_u)
\* with f_B(T) = T*Ra/(Pr*Re**2)*g.
MomentumTerms(prm, w, w_n, dx) ==
    << Term(3, "psi_u", "ddt", [Delta_t |-> prm.timestep_size],
            <<Comp("u", w), Comp("u", w_n)>>, dx),
       Term(3, "psi_u", "f_B",
            [Ra |-> prm.rayleigh_numer, Pr |-> prm.prandtl_number, Re |-> Re,
             g |-> prm.gravity],
            <<Comp("T", w)>>, dx),
       Term(4, "psi_u", "c", NoCoef, <<Comp("u", w), Comp("u", w)>>, dx),
       Term(5, "psi_u", "b", NoCoef, <<Comp("p", w)>>, dx),
       Term(6, "psi_u", "a",
            [mu_L |-> prm.liquid_viscosity, mu_S |-> prm.solid_viscosity,
             T_r |-> prm.regularization_central_temperature,
             r |-> prm.regularization_smoothing_parameter],
            <<Comp("T", w), Comp("u", w)>>, dx) >>

\* Energy conservation   (lines 154-155):
\*   1./Delta_t*psi_T*(T - T_n - 1./Ste*(phi(T) - phi(T_n)))
\*   + dot(grad(psi_T), 1./Pr*grad(T) - T*u)
EnergyTerms(prm, w, w_n, dx) ==
    << Term(7, "psi_T", "ddt",
            [Delta_t |-> prm.timestep_size, Ste |-> prm.stefan_number,
             T_r |-> prm.regularization_central_temperature,
             r |-> prm.regularization_smoothing_parameter],
            <<Comp("T", w), Comp("T", w_n)>>, dx),
       Term(8, "psi_T", "diffusion", [Pr |-> prm.prandtl_number],
            <<Comp("T", w)>>, dx),
       Term(8, "psi_T", "advection", NoCoef, <<Comp("T", w), Comp("u", w)>>, dx) >>

GoverningForm(prm, w, w_n, dx) ==
    MassTerms(prm, w, dx) \o MomentumTerms(prm, w, w_n, dx) \o EnergyTerms(prm, w, w_n, dx)

\* A closure that holds the default regularization instead of the Constants
\* of this call.
PhiClosure_defaults(prm) ==
    [kind |-> "phi",
     T_r |-> Defaults.regularization_central_temperature,
     r |-> Defaults.regularization_smoothing_parameter]

\* The closure phi of line 92, which holds the Constants T_r and r of lines 88-90.
PhiClosure(prm) ==
    [kind |-> "phi",
     T_r |-> prm.regularization_central_temperature,
     r |-> prm.regularization_smoothing_parameter]

(***************************************************************************)
(* Reading a form back.                                                    *)
(***************************************************************************)
TermsOf(form) == {form[i] : i \in 1..Len(form)}

\* The values the form holds for the Constant called `name`.
CoefValues(form, name) ==
    {t.coef[name] : t \in {x \in TermsOf(form) : name \in DOMAIN x.coef}}

\* The solutions the form reads.
SolutionsRead(form) ==
    UNION {{t.fields[i].of : i \in 1..Len(t.fields)} : t \in TermsOf(form)}

(***************************************************************************)
(* __init__ (lines 26-52), one statement a step.                           *)
(***************************************************************************)
Constructing == pc = "construct" /\ ip <= Len(InitStatements)

Advance ==
    /\ ip' = ip + 1
    /\ pc' = IF ip = Len(InitStatements) THEN "ready" ELSE pc
    /\ last' = "__init__"

\* self.<name> = <name>   (lines 26-48)
AssignParameter ==
    /\ Constructing
    /\ InitStatements[ip] \in ParamNames
    /\ params' = [n \in DOMAIN params \cup {InitStatements[ip]} |->
                    IF n = InitStatements[ip] THEN args[n] ELSE params[n]]
    /\ Advance
    /\ UNCHANGED <<args, semi_phasefield_mapping, element, governing_form, base,
                   state_solution, old_state_solution, calls, rebinds,
                   phase_eval, mu_eval>>

\* self.semi_phasefield_mapping = None   (line 50)
SetMappingNone ==
    /\ Constructing
    /\ InitStatements[ip] = "semi_phasefield_mapping"
    /\ semi_phasefield_mapping' = NoneMapping
    /\ Advance
    /\ UNCHANGED <<args, params, element, governing_form, base,
                   state_solution, old_state_solution, calls, rebinds,
                   phase_eval, mu_eval>>

\* phaseflow.simulation.Simulation.__init__(self)   (line 52).  The base
\* class is not part of the source: it supplies the mesh and the integration
\* metric.
BaseInit ==
    /\ Constructing
    /\ InitStatements[ip] = "base.__init__"
    /\ base' = [mesh |-> "triangle", integration_metric |-> "dx"]
    /\ Advance
    /\ UNCHANGED <<args, params, semi_phasefield_mapping, element, governing_form,
                   state_solution, old_state_solution, calls, rebinds,
                   phase_eval, mu_eval>>

(***************************************************************************)
(* The operations of the class.                                            *)
(***************************************************************************)
Count(op) == [calls EXCEPT ![op] = @ + 1]

\* __init__ has returned: the methods can be called, in any order; the class
\* imposes none.
Constructed == pc = "ready"

\* update_element storing the velocity degree in self.pressure_element_degree
\* instead of a local name.
update_element_stores_velocity_degree ==
    /\ Constructed
    /\ calls.update_element < MaxCalls
    /\ base.mesh # "unset"
    /\ {"pressure_element_degree", "temperature_element_degree"} \subseteq DOMAIN params
    /\ element' = MixedElement(base.mesh, params)
    /\ params' = [params EXCEPT !.pressure_element_degree =
                                    velocity_element_degree(@)]
    /\ last' = "update_element"
    /\ calls' = Count("update_element")
    /\ UNCHANGED <<args, ip, pc, semi_phasefield_mapping, governing_form, base,
                   state_solution, old_state_solution, rebinds, phase_eval, mu_eval>>

\* update_element (lines 55-66): reads self.mesh and the two degrees.
update_element ==
    /\ Constructed
    /\ calls.update_element < MaxCalls
    /\ base.mesh # "unset"
    /\ {"pressure_element_degree", "temperature_element_degree"} \subseteq DOMAIN params
    /\ element' = MixedElement(base.mesh, params)
    /\ last' = "update_element"
    /\ calls' = Count("update_element")
    /\ UNCHANGED <<args, ip, pc, params, semi_phasefield_mapping, governing_form,
                   base, state_solution, old_state_solution, rebinds,
                   phase_eval, mu_eval>>

\* A form that is built once and kept afterwards.
AssembledForm_built_once ==
    IF governing_form # << >>
    THEN governing_form
    ELSE GoverningForm(params, state_solution, old_state_solution,
                       base.integration_metric)

\* The form the call assigns (lines 110-156).
AssembledForm ==
    GoverningForm(params, state_solution, old_state_solution, base.integration_metric)

\* self.integration_metric, self.state.solution and self.old_state.solution
\* exist (read at lines 110-114).
Supplied ==
    /\ base.integration_metric # "unset"
    /\ state_solution # 0
    /\ old_state_solution # 0

\* update_governing_form (lines 69-156): reads the parameters and stores the
\* mapping (line 97); then reads the integration metric and the two
\* solutions and stores the form (line 150).  Where one of the three is
\* missing the read raises AttributeError: the mapping is already stored,
\* the form is not assigned, and the call does not return.  calls counts the
\* calls that return.
update_governing_form ==
    /\ Constructed
    /\ ParamNames \subseteq DOMAIN params
    /\ semi_phasefield_mapping' = PhiClosure(params)
    /\ \/ /\ Supplied
          /\ calls.update_governing_form < MaxCalls
          /\ governing_form' = AssembledForm
          /\ last' = "update_governing_form"
          /\ calls' = Count("update_governing_form")
       \/ /\ ~Supplied
          /\ governing_form' = governing_form
          /\ last' = "update_governing_form: AttributeError"
          /\ calls' = calls
    /\ UNCHANGED <<args, ip, pc, params, element, base, state_solution,
                   old_state_solution, rebinds, phase_eval, mu_eval>>

(***************************************************************************)
(* The caller: the base simulation builds the two solutions over the       *)
(* function space of the element, and attributes may be rebound.           *)
(***************************************************************************)
\* A solution object that no attribute held before.
FreshSolution == 3 + rebinds

SupplyState ==
    /\ Constructed
    /\ element # << >>
    /\ state_solution = 0
    /\ state_solution' = 1
    /\ old_state_solution' = 2
    /\ last' = "supply_state"
    /\ UNCHANGED <<args, ip, pc, params, semi_phasefield_mapping, element, governing_form,
                   base, calls, rebinds, phase_eval, mu_eval>>

\* sim.<name> = v
RebindParameter ==
    /\ Constructed
    /\ rebinds < MaxRebinds
    /\ \E name \in ParamNames : \E v \in Values(name) \ {params[name]} :
          params' = [params EXCEPT ![name] = v]
    /\ rebinds' = rebinds + 1
    /\ last' = "rebind_parameter"
    /\ UNCHANGED <<args, ip, pc, semi_phasefield_mapping, element, governing_form,
                   base, state_solution, old_state_solution, calls,
                   phase_eval, mu_eval>>

\* sim.state.solution = <a new solution>
RebindSolution ==
    /\ Constructed
    /\ state_solution # 0
    /\ rebinds < MaxRebinds
    /\ state_solution' = FreshSolution
    /\ rebinds' = rebinds + 1
    /\ last' = "rebind_solution"
    /\ UNCHANGED <<args, ip, pc, params, semi_phasefield_mapping, element,
                   governing_form, base, old_state_solution, calls,
                   phase_eval, mu_eval>>

\* sim.old_state.solution = <a new solution>
RebindOldSolution ==
    /\ Constructed
    /\ old_state_solution # 0
    /\ rebinds < MaxRebinds
    /\ old_state_solution' = FreshSolution
    /\ rebinds' = rebinds + 1
    /\ last' = "rebind_old_solution"
    /\ UNCHANGED <<args, ip, pc, params, semi_phasefield_mapping, element,
                   governing_form, base, state_solution, calls,
                   phase_eval, mu_eval>>

(***************************************************************************)
(* The simulation from the call of its constructor.                        *)
(***************************************************************************)
Unconstructed ==
    /\ ip = 1
    /\ pc = "construct"
    /\ params = << >>
    /\ semi_phasefield_mapping = NoMapping
    /\ element = << >>
    /\ governing_form = << >>
    /\ base = NoBase
    /\ state_solution = 0
    /\ old_state_solution = 0
    /\ last = "none"
    /\ calls = [update_element |-> 0, update_governing_form |-> 0]
    /\ rebinds = 0
    /\ phase_eval = << >>
    /\ mu_eval = << >>

Init ==
    /\ args \in Arguments
    /\ Unconstructed

Next ==
    \/ AssignParameter
    \/ SetMappingNone
    \/ BaseInit
    \/ update_element
    \/ SupplyState
    \/ update_governing_form
    \/ RebindParameter
    \/ RebindSolution
    \/ RebindOldSolution

Spec == Init /\ [][Next]_vars

(***************************************************************************)
(* Evaluating the two functions of the form at sample values.              *)
(***************************************************************************)
\* The state after the constructor was called with `a`, then update_element,
\* then the solutions were built, then update_governing_form.
Built(a) ==
    /\ args = a
    /\ ip = Len(InitStatements) + 1
    /\ pc = "ready"
    /\ params = a
    /\ semi_phasefield_mapping = PhiClosure(a)
    /\ element = MixedElement("triangle", a)
    /\ governing_form = GoverningForm(a, 1, 2, "dx")
    /\ base = [mesh |-> "triangle", integration_metric |-> "dx"]
    /\ state_solution = 1
    /\ old_state_solution = 2
    /\ last = "update_governing_form"
    /\ calls = [update_element |-> 1, update_governing_form |-> 1]
    /\ rebinds = 0
    /\ phase_eval = << >>
    /\ mu_eval = << >>

\* The newest evaluation first, the one before it second.
Keep(new, evals) == IF evals = << >> THEN <<new>> ELSE <<new, evals[1]>>

Temperatures == -MaxTemperature..MaxTemperature
CentralTemperatures == {-1, 0, 1}
SmoothingValues == {-2, -1, 1, 2, 3, 4}

PhiArguments ==
    {[Defaults EXCEPT !.regularization_central_temperature = c,
                      !.regularization_smoothing_parameter = s] :
        c \in CentralTemperatures, s \in SmoothingValues}

\* self.semi_phasefield_mapping(T), the post-processing use of the mapping.
ApplyMapping ==
    /\ semi_phasefield_mapping.kind = "phi"
    /\ \E T \in Temperatures :
          /\ OnGrid(T, semi_phasefield_mapping.T_r, semi_phasefield_mapping.r)
          /\ phase_eval' =
                Keep([T |-> T,
                      phi |-> phi(T, semi_phasefield_mapping.T_r,
                                  semi_phasefield_mapping.r)],
                     phase_eval)
    /\ last' = "semi_phasefield_mapping"
    /\ UNCHANGED <<args, ip, pc, params, semi_phasefield_mapping, element,
                   governing_form, base, state_solution, old_state_solution,
                   calls, rebinds, mu_eval>>

InitPhi == \E a \in PhiArguments : Built(a)

SpecPhi == InitPhi /\ [][ApplyMapping]_vars

Viscosities == 0..MaxViscosity

MuArguments ==
    {[Defaults EXCEPT !.liquid_viscosity = l, !.solid_viscosity = s] :
        l \in Viscosities, s \in Viscosities}

\* Values of the phase indicator, in units of 1/PhiDen; 0 and PhiDen among them.
PhiValues == {phi(T, 0, r) : T \in Temperatures, r \in {1, 4}}

\* The stress-strain term's viscosity mu(phi_of_T) at a value of phi_of_T.
EvalViscosity ==
    /\ governing_form # << >>
    /\ \E t \in {x \in TermsOf(governing_form) : x.op = "a"} :
       \E p \in PhiValues :
          mu_eval' = Keep([phi |-> p, mu |-> mu(p, t.coef.mu_L, t.coef.mu_S)],
                          mu_eval)
    /\ last' = "mu"
    /\ UNCHANGED <<args, ip, pc, params, semi_phasefield_mapping, element,
                   governing_form, base, state_solution, old_state_solution,
                   calls, rebinds, phase_eval>>

InitMu == \E a \in MuArguments : Built(a)

SpecMu == InitMu /\ [][EvalViscosity]_vars

(***************************************************************************)
(* Properties.                                                             *)
(***************************************************************************)
Built_form == calls.update_governing_form > 0

\* The values of `last` after a call of update_governing_form: one that
\* returned, one that raised.
FormCalls == {"update_governing_form", "update_governing_form: AttributeError"}

\* C1: in every built element the velocity sub-element's degree is exactly
\* the pressure sub-element's degree plus one, whatever was configured or
\* rebound since; and right after update_element the pressure sub-element
\* has the configured degree p and the velocity sub-element degree p+1.
C1_VelocityDegree ==
    /\ element # << >> =>
          /\ element[1].shape = "scalar"
          /\ element[2].shape = "vector"
          /\ element[2].degree = element[1].degree + 1
    /\ last = "update_element" =>
          /\ element[1].degree = params.pressure_element_degree
          /\ element[2].degree = params.pressure_element_degree + 1

C1_Witness ==
    /\ last = "update_element"
    /\ params.pressure_element_degree = 2
    /\ element[2].degree = 3

\* C4 as stated: right after update_element the three sub-elements are
\* (pressure at p, velocity at p+1, temperature at p), p the pressure degree.
C4_TemperatureAtPressureDegree ==
    last = "update_element" =>
        /\ Len(element) = 3
        /\ element[1].degree = params.pressure_element_degree
        /\ element[2].degree = params.pressure_element_degree + 1
        /\ element[3].degree = params.pressure_element_degree

\* C4, amended: right after update_element the mixed element is (scalar
\* pressure at p, vector velocity at p+1, scalar temperature at the
\* configured temperature_element_degree), all on the mesh's cell.
C4_MixedElement ==
    last = "update_element" =>
        element =
          << [family |-> "P", cell |-> base.mesh, shape |-> "scalar",
              degree |-> params.pressure_element_degree],
             [family |-> "P", cell |-> base.mesh, shape |-> "vector",
              degree |-> params.pressure_element_degree + 1],
             [family |-> "P", cell |-> base.mesh, shape |-> "scalar",
              degree |-> params.temperature_element_degree] >>

C4_Witness ==
    /\ last = "update_element"
    /\ params.temperature_element_degree # params.pressure_element_degree
    /\ element[3].degree = params.temperature_element_degree

\* C5: semi_phasefield_mapping is None when construction ends and stays
\* None until the first call of update_governing_form; each call of
\* update_governing_form (also one that raises for a missing solution)
\* leaves the mapping phi built from the regularization central temperature
\* and smoothing parameter held at that call; and no other step changes it.
C5_Mapping ==
    [][ /\ (pc = "construct" /\ pc' # "construct") =>
              semi_phasefield_mapping' = NoneMapping
        /\ last' \in FormCalls =>
              semi_phasefield_mapping' =
                 [kind |-> "phi",
                  T_r |-> params.regularization_central_temperature,
                  r |-> params.regularization_smoothing_parameter]
        /\ (pc # "construct" /\ last' \notin FormCalls) =>
              semi_phasefield_mapping' = semi_phasefield_mapping ]_vars

C5_Witness ==
    /\ Built_form
    /\ semi_phasefield_mapping.kind = "phi"
    /\ semi_phasefield_mapping.r = 2
    /\ semi_phasefield_mapping.r # params.regularization_smoothing_parameter

\* The form and the mapping hold these parameter values and read these
\* solutions.
Corresponds(form, mapping, prm, w, w_n) ==
    /\ CoefValues(form, "Delta_t") = {prm.timestep_size}
    /\ CoefValues(form, "Pr") = {prm.prandtl_number}
    /\ CoefValues(form, "Ra") = {prm.rayleigh_numer}
    /\ CoefValues(form, "Ste") = {prm.stefan_number}
    /\ CoefValues(form, "g") = {prm.gravity}
    /\ CoefValues(form, "mu_L") = {prm.liquid_viscosity}
    /\ CoefValues(form, "mu_S") = {prm.solid_viscosity}
    /\ CoefValues(form, "gamma") = {prm.penalty_parameter}
    /\ CoefValues(form, "T_r") = {prm.regularization_central_temperature}
    /\ CoefValues(form, "r") = {prm.regularization_smoothing_parameter}
    /\ mapping.kind = "phi"
    /\ mapping.T_r = prm.regularization_central_temperature
    /\ mapping.r = prm.regularization_smoothing_parameter
    /\ SolutionsRead(form) = {w, w_n}
    /\ \A t \in TermsOf(form) :
          /\ t.fields[1].of = w
          /\ t.op = "ddt" => t.fields[2].of = w_n

\* C6 as stated: in every state with a form, the form and the mapping
\* correspond to the current parameters and the current solutions.
C6_FormAlwaysCurrent ==
    governing_form # << >> =>
        Corresponds(governing_form, semi_phasefield_mapping, params,
                    state_solution, old_state_solution)

\* C6, amended: each call of update_governing_form that returns leaves a
\* form and a mapping that correspond to the parameters and solutions of
\* that call; no other step changes the form, so after a rebinding it keeps
\* the replaced values until update_governing_form is called again.
C6_FormCurrentAtCall ==
    [][ /\ last' = "update_governing_form" =>
              Corresponds(governing_form', semi_phasefield_mapping', params',
                          state_solution', old_state_solution')
        /\ last' # "update_governing_form" =>
              governing_form' = governing_form ]_vars

C6_Witness ==
    /\ last = "update_governing_form"
    /\ calls.update_governing_form >= 2
    /\ rebinds > 0
    /\ params # args
    /\ Corresponds(governing_form, semi_phasefield_mapping, params,
                   state_solution, old_state_solution)

\* C7: a step of update_element changes, of the object, only self.element;
\* a step of update_governing_form changes only self.governing_form and
\* self.semi_phasefield_mapping (only the mapping when it raises).  The twelve parameters, the two solutions
\* and (for update_governing_form) the element stay as they were.
C7_Frame ==
    [][ /\ last' = "update_element" =>
              UNCHANGED <<params, semi_phasefield_mapping, governing_form,
                          state_solution, old_state_solution, base>>
        /\ last' \in FormCalls =>
              UNCHANGED <<params, element, state_solution,
                          old_state_solution, base>>
        /\ last' = "update_governing_form: AttributeError" =>
              UNCHANGED governing_form ]_vars

C7_Witness ==
    /\ last = "update_governing_form"
    /\ calls.update_element >= 2
    /\ DOMAIN params = ParamNames
    /\ element # << >>

\* The terms left when the 1/Delta_t terms and the convection term c are
\* removed, restricted to the mass and momentum equations.
Suppressed(form) ==
    SelectSeq(form, LAMBDA t : ~("Delta_t" \in DOMAIN t.coef) /\ t.op # "c")

MassAndMomentum(form) ==
    SelectSeq(form, LAMBDA t : t.test \in {"psi_p", "psi_u"})

Shape(t) == [test |-> t.test, op |-> t.op, coef |-> DOMAIN t.coef,
             reads |-> [i \in 1..Len(t.fields) |-> t.fields[i].comp]]

\* C9: with the time-derivative terms and c(u, u, psi_u) removed, the mass
\* and momentum terms of the form are exactly b(u, psi_p), -psi_p*gamma*p,
\* the buoyancy dot(psi_u, f_B(T)), b(psi_u, p) and a(mu(phi(T)), u, psi_u),
\* each once.
C9_StokesForm ==
    governing_form # << >> =>
        LET rest == MassAndMomentum(Suppressed(governing_form))
        IN  /\ Len(rest) = 5
            /\ {Shape(rest[i]) : i \in 1..Len(rest)} =
                 { [test |-> "psi_p", op |-> "b", coef |-> {}, reads |-> <<"u">>],
                   [test |-> "psi_p", op |-> "penalty", coef |-> {"gamma"},
                    reads |-> <<"p">>],
                   [test |-> "psi_u", op |-> "f_B", coef |-> {"Ra", "Pr", "Re", "g"},
                    reads |-> <<"T">>],
                   [test |-> "psi_u", op |-> "b", coef |-> {}, reads |-> <<"p">>],
                   [test |-> "psi_u", op |-> "a", coef |-> {"mu_L", "mu_S", "T_r", "r"},
                    reads |-> <<"T", "u">>] }

C9_Witness ==
    /\ governing_form # << >>
    /\ Len(governing_form) > Len(Suppressed(governing_form))
    /\ Len(MassAndMomentum(Suppressed(governing_form))) = 5

\* When the base constructor runs (line 52), all twelve parameters are
\* assigned to the arguments and semi_phasefield_mapping is None.
ConstructorOrder ==
    /\ (Constructing /\ InitStatements[ip] = "base.__init__") =>
          /\ params = args
          /\ semi_phasefield_mapping = NoneMapping
    /\ base # NoBase =>
          /\ DOMAIN params = ParamNames
          /\ semi_phasefield_mapping.kind # "unset"

\* C2: for a positive smoothing parameter r, the mapping's value is exactly
\* 1/2 at T = T_r; it lies in [0, 1] and does not increase with T; for
\* T <= T_r it is within r/(2(r + T_r - T)) of 1 and for T >= T_r within
\* r/(2(r + T - T_r)) of 0, bounds that vanish as T goes to -infinity and
\* +infinity.
C2_PhaseIndicator ==
    LET T_r == semi_phasefield_mapping.T_r
        r == semi_phasefield_mapping.r
    IN  r > 0 =>
          /\ \A i \in 1..Len(phase_eval) :
                LET e == phase_eval[i]
                IN  /\ e.T = T_r => 2 * e.phi = PhiDen
                    /\ 0 <= e.phi /\ e.phi <= PhiDen
                    /\ e.T <= T_r =>
                          (PhiDen - e.phi) * 2 * (r + (T_r - e.T)) <= PhiDen * r
                    /\ e.T >= T_r =>
                          e.phi * 2 * (r + (e.T - T_r)) <= PhiDen * r
          /\ Len(phase_eval) = 2 =>
                (phase_eval[1].T <= phase_eval[2].T
                    => phase_eval[1].phi >= phase_eval[2].phi)

C2_Witness ==
    /\ semi_phasefield_mapping.r > 0
    /\ Len(phase_eval) = 2
    /\ phase_eval[1].T = semi_phasefield_mapping.T_r
    /\ 2 * phase_eval[1].phi = PhiDen
    /\ phase_eval[2].T < semi_phasefield_mapping.T_r
    /\ phase_eval[2].phi = PhiDen

\* C3: the effective viscosity is the liquid viscosity at phase indicator 0
\* and the solid viscosity at phase indicator 1, lies between the two, and
\* is monotonic in the phase indicator: it does not decrease with phi when
\* mu_S >= mu_L and does not increase when mu_S <= mu_L.
C3_Viscosity ==
    LET mu_L == params.liquid_viscosity
        mu_S == params.solid_viscosity
    IN  /\ \A i \in 1..Len(mu_eval) :
              LET e == mu_eval[i]
              IN  /\ e.phi = 0 => e.mu = mu_L * PhiDen
                  /\ e.phi = PhiDen => e.mu = mu_S * PhiDen
                  /\ mu_L <= mu_S => (mu_L * PhiDen <= e.mu /\ e.mu <= mu_S * PhiDen)
                  /\ mu_S <= mu_L => (mu_S * PhiDen <= e.mu /\ e.mu <= mu_L * PhiDen)
        /\ (Len(mu_eval) = 2 /\ mu_eval[1].phi <= mu_eval[2].phi) =>
              /\ mu_L <= mu_S => mu_eval[1].mu <= mu_eval[2].mu
              /\ mu_S <= mu_L => mu_eval[1].mu >= mu_eval[2].mu

C3_Witness ==
    /\ Len(mu_eval) = 2
    /\ params.liquid_viscosity # params.solid_viscosity
    /\ mu_eval[1].phi = 0
    /\ mu_eval[2].phi = PhiDen
    /\ mu_eval[1].mu = params.liquid_viscosity * PhiDen
    /\ mu_eval[2].mu = params.solid_viscosity * PhiDen

====
